---- MODULE Spec2Model ----
(***************************************************************************)
(* TxoSpenderIndex (src/index/txospenderindex.cpp): the index from a spent *)
(* outpoint to the disk position of the transaction that spends it.        *)
(*                                                                         *)
(* The persisted state is the LevelDB database m_db (a partial map from    *)
(* keys to vectors of CDiskTxPos), the block files of the archive and the  *)
(* chain of blocks the driver has fed to the index.  CustomAppend and      *)
(* CustomRewind are run by the single driver thread, one loop iteration of *)
(* WriteSpenderInfos / EraseSpenderInfos per step so that a crash or a     *)
(* reader can fall between two iterations; FindSpender is run by a reader  *)
(* thread (one database read, then the scan of the candidates).            *)
(***************************************************************************)
EXTENDS Integers, Sequences, FiniteSets, TLC

(***************************************************************************)
(* Constants of the program and bounds of the model.                       *)
(***************************************************************************)
\* constexpr uint8_t DB_TXOSPENDERINDEX{'s'}
DB_TXOSPENDERINDEX == 115

\* uint64_t arithmetic in CreateIndex wraps at 2^64; the model keeps the wrap
\* at a word that TLC can enumerate.
Uint64Mod == 16

(***************************************************************************)
(* Transactions, blocks and the block archive.                             *)
(***************************************************************************)
COutPoint(h, n) == [hash |-> h, n |-> n]

\* COutPoint::SetNull(): the prevout of a coinbase input
NullOutPoint == [hash |-> 0, n |-> -1]

Tx(id, vin) == [txid |-> id, vin |-> vin]

Coinbase(id) == Tx(id, <<NullOutPoint>>)

IsCoinBase(tx) == Len(tx.vin) = 1 /\ tx.vin[1] = NullOutPoint

\* ::GetSerializeSize(TX_WITH_WITNESS(tx)): grows with the number of inputs
GetSerializeSize(tx) == 2 + Len(tx.vin)

\* GetSizeOfCompactSize(block.data->vtx.size()): 1, 3 or 5 bytes
GetSizeOfCompactSize(n) == IF n < 253 THEN 1 ELSE IF n <= 65535 THEN 3 ELSE 5

\* The genesis block, as a CBlockIndex pointer
Genesis == 0

\* nullptr, which GetAncestor returns for a height below 0
NullBlockIndex == -1

(***************************************************************************)
(* The blocks the driver may present.  Blocks 1-2 and 3-4 are two forks on *)
(* top of the genesis block.  The outpoints (2,3), (3,2) and (4,1) all give*)
(* CreateIndex = 5: block 1 spends two of them in two transactions, block 2*)
(* spends the third next to a non-colliding one, and the fork spends the   *)
(* same outpoints in other transactions: block 3 one of the colliding ones *)
(* next to the non-colliding one, then block 4 two of them in two          *)
(* transactions, on top of the bucket block 3 has filled.                  *)
(***************************************************************************)
Blocks ==
    [b \in 1..4 |->
        CASE b = 1 -> [prev |-> Genesis, file_number |-> 0, data_pos |-> 8,
                       vtx |-> << Coinbase(21),
                                  Tx(11, <<COutPoint(2, 3)>>),
                                  Tx(12, <<COutPoint(3, 2)>>) >>]
          [] b = 2 -> [prev |-> 1, file_number |-> 1, data_pos |-> 8,
                       vtx |-> << Coinbase(22),
                                  Tx(13, <<COutPoint(4, 1), COutPoint(6, 0)>>) >>]
          [] b = 3 -> [prev |-> Genesis, file_number |-> 1, data_pos |-> 60,
                       vtx |-> << Coinbase(23),
                                  Tx(14, <<COutPoint(2, 3), COutPoint(6, 0)>>) >>]
          [] b = 4 -> [prev |-> 3, file_number |-> 2, data_pos |-> 8,
                       vtx |-> << Coinbase(24),
                                  Tx(15, <<COutPoint(3, 2)>>),
                                  Tx(16, <<COutPoint(4, 1)>>) >>]]

BlockIds == DOMAIN Blocks

Files == {Blocks[b].file_number : b \in BlockIds}

\* every transaction of the archive, and every outpoint a client may ask about
AllTxs == UNION {{Blocks[b].vtx[j] : j \in 1..Len(Blocks[b].vtx)} : b \in BlockIds}

SpendingTxs == {tx \in AllTxs : ~IsCoinBase(tx)}

OutPoints == UNION {{tx.vin[j] : j \in 1..Len(tx.vin)} : tx \in SpendingTxs}
             \cup {COutPoint(5, 0)}

TxSpends(tx, outpoint) == \E j \in 1..Len(tx.vin) : tx.vin[j] = outpoint

CDiskTxPos(file, pos, offset) == [nFile |-> file, nPos |-> pos, nTxOffset |-> offset]

\* The bytes of a block after its header: the transaction count, then the
\* transactions one after the other.  TxAtOffset is the transaction that
\* starts at byte `offset` after the header, <<>> when none starts there.
RECURSIVE TxWalk(_, _, _, _)
TxWalk(vtx, j, at, offset) ==
    IF j > Len(vtx) \/ at > offset THEN <<>>
    ELSE IF at = offset THEN <<vtx[j]>>
    ELSE TxWalk(vtx, j + 1, at + GetSerializeSize(vtx[j]), offset)

TxAtOffset(vtx, offset) == TxWalk(vtx, 1, GetSizeOfCompactSize(Len(vtx)), offset)

(***************************************************************************)
(* The database: a partial map from keys to vectors of positions.          *)
(***************************************************************************)
EmptyDB == [k \in {} |-> <<>>]

Exists(d, key) == key \in DOMAIN d

\* m_db->Read(key, positions) into an empty vector: the vector stays empty
\* when the key is absent
Read(d, key) == IF key \in DOMAIN d THEN d[key] ELSE <<>>

Put(d, key, val) == [k \in DOMAIN d \cup {key} |-> IF k = key THEN val ELSE d[k]]

Del(d, key) == [k \in DOMAIN d \ {key} |-> d[k]]

\* CDBBatch: the operations queued by batch.Write / batch.Erase, in order
BatchWrite(b, key, val) == Append(b, [op |-> "write", key |-> key, val |-> val])

BatchErase(b, key) == Append(b, [op |-> "erase", key |-> key, val |-> <<>>])

\* m_db->WriteBatch(batch): every queued operation, in order, in one commit
RECURSIVE WriteBatch(_, _)
WriteBatch(d, b) ==
    IF b = <<>> THEN d
    ELSE WriteBatch(IF Head(b).op = "write" THEN Put(d, Head(b).key, Head(b).val)
                                            ELSE Del(d, Head(b).key),
                    Tail(b))

\* operator== on two CDiskTxPos.  It is declared in index/disktxpos.h, which
\* is not among the sources at hand; a DiskLocator is the triple (file,
\* block offset, transaction offset) and identifies one transaction, so two
\* positions are equal when the three fields are.
CDiskTxPosEq(a, b) ==
    a.nFile = b.nFile /\ a.nPos = b.nPos /\ a.nTxOffset = b.nTxOffset

\* std::find(s.begin(), s.end(), x) != s.end()
Contains(s, x) == \E j \in 1..Len(s) : CDiskTxPosEq(s[j], x)

\* positions.erase(positions.begin() + index), index counted from 1 here
EraseAt(s, index) == [j \in 1..(Len(s) - 1) |-> IF j < index THEN s[j] ELSE s[j + 1]]

(***************************************************************************)
(* CreateIndex: first 8 bytes of the tx hash, plus the output index.       *)
(***************************************************************************)
\* uint256::GetUint64(0): the low word of the hash
GetUint64(hash) == hash % Uint64Mod

CreateIndex(vout) == (GetUint64(vout.hash) + vout.n) % Uint64Mod

\* the key WriteSpenderInfos, EraseSpenderInfos and FindSpender use for an
\* outpoint when the index holds the keying material `siphash_key`
DbKey(siphash_key, vout) == <<DB_TXOSPENDERINDEX, CreateIndex(vout)>>

\* the values the member m_siphash_key may hold
KeyingMaterials == {<<0, 0>>, <<1, 2>>}

(***************************************************************************)
(* ReadTransaction, and the scan of FindSpender.                           *)
(***************************************************************************)
\* the block stored at (file, pos) of the archive, as a set (empty or one)
BlockAt(file, pos) ==
    {b \in BlockIds : Blocks[b].file_number = file /\ Blocks[b].data_pos = pos}

\* ReadTransaction(postx, tx): <<>> for `return false`, <<tx>> for success.
\* `gone` is the set of block files that can no longer be opened.
ReadTransaction(gone, postx) ==
    IF postx.nFile \in gone \/ BlockAt(postx.nFile, postx.nPos) = {} THEN <<>>
    ELSE LET b == CHOOSE x \in BlockAt(postx.nFile, postx.nPos) : TRUE
         IN  TxAtOffset(Blocks[b].vtx, postx.nTxOffset)

\* std::optional<Txid>: <<>> is std::nullopt, <<id>> a value
nullopt == <<>>

\* ScanPositions without the comparison of the inputs with txo: the first
\* readable candidate is returned
RECURSIVE ScanPositionsAnyInput(_, _, _, _)
ScanPositionsAnyInput(gone, positions, j, txo) ==
    IF j > Len(positions) THEN nullopt
    ELSE LET tx == ReadTransaction(gone, positions[j])
         IN  IF tx # <<>> THEN <<tx[1].txid>>
             ELSE ScanPositionsAnyInput(gone, positions, j + 1, txo)

\* ScanPositions that gives up at the first candidate it cannot read
RECURSIVE ScanPositionsStopOnError(_, _, _, _)
ScanPositionsStopOnError(gone, positions, j, txo) ==
    IF j > Len(positions) THEN nullopt
    ELSE LET tx == ReadTransaction(gone, positions[j])
         IN  IF tx = <<>> THEN nullopt
             ELSE IF TxSpends(tx[1], txo) THEN <<tx[1].txid>>
             ELSE ScanPositionsStopOnError(gone, positions, j + 1, txo)

\* the loop of FindSpender over the candidates, from candidate j on
RECURSIVE ScanPositions(_, _, _, _)
ScanPositions(gone, positions, j, txo) ==
    IF j > Len(positions) THEN nullopt
    ELSE LET tx == ReadTransaction(gone, positions[j])
         IN  IF tx # <<>> /\ TxSpends(tx[1], txo) THEN <<tx[1].txid>>
             ELSE ScanPositions(gone, positions, j + 1, txo)

\* FindSpender on the database d: one Read, then the scan
FindSpender(d, siphash_key, gone, txo) ==
    IF ~Exists(d, DbKey(siphash_key, txo)) THEN nullopt
    ELSE ScanPositions(gone, Read(d, DbKey(siphash_key, txo)), 1, txo)

(***************************************************************************)
(* WriteSpenderInfos and EraseSpenderInfos, one loop iteration at a time.  *)
(* d is what m_db holds, b the batch built so far; the result is the pair  *)
(* after the iteration.  readOk is the outcome of m_db->Read.              *)
(***************************************************************************)
\* WriteSpenderInfosStep writing to m_db at once instead of to the batch only
WriteSpenderInfosStepEager(d, b, siphash_key, item, readOk) ==
    LET key == DbKey(siphash_key, item.outpoint)
        positions == IF Exists(d, key) /\ readOk THEN Read(d, key) ELSE <<>>
    IN  IF ~Contains(positions, item.pos)
        THEN [db |-> Put(d, key, Append(positions, item.pos)),
              batch |-> BatchWrite(b, key, Append(positions, item.pos))]
        ELSE [db |-> d, batch |-> b]

\* WriteSpenderInfosStep without the std::find of line 46: pos is always added
WriteSpenderInfosStepNoFind(d, b, siphash_key, item, readOk) ==
    LET key == DbKey(siphash_key, item.outpoint)
        positions == IF Exists(d, key) /\ readOk THEN Read(d, key) ELSE <<>>
    IN  [db |-> d, batch |-> BatchWrite(b, key, Append(positions, item.pos))]

WriteSpenderInfosStep(d, b, siphash_key, item, readOk) ==
    LET key == DbKey(siphash_key, item.outpoint)
        positions == IF Exists(d, key) /\ readOk THEN Read(d, key) ELSE <<>>
    IN  IF ~Contains(positions, item.pos)
        THEN [db |-> d, batch |-> BatchWrite(b, key, Append(positions, item.pos))]
        ELSE [db |-> d, batch |-> b]

\* the index EraseSpenderInfos finds for `outpoint`: the loop does not stop at
\* the first match, so it is the last candidate that spends it; 0 stands for
\* std::numeric_limits<size_t>::max()
ErasedIndex(gone, positions, outpoint) ==
    LET hits == {j \in 1..Len(positions) :
                    LET tx == ReadTransaction(gone, positions[j])
                    IN  tx # <<>> /\ TxSpends(tx[1], outpoint)}
    IN  IF hits = {} THEN 0 ELSE CHOOSE j \in hits : \A h \in hits : h <= j

\* EraseSpenderInfosStep without the search among colliding candidates: the
\* record is erased whatever it holds
EraseSpenderInfosStepEraseAll(d, b, siphash_key, gone, outpoint, readOk) ==
    [db |-> d, batch |-> BatchErase(b, DbKey(siphash_key, outpoint))]

\* EraseSpenderInfosStep that searches a record of one candidate too, and
\* writes the vector back when it took the candidate out
EraseSpenderInfosStepKeepEmpty(d, b, siphash_key, gone, outpoint, readOk) ==
    LET key == DbKey(siphash_key, outpoint)
        positions == IF readOk THEN Read(d, key) ELSE <<>>
        index == ErasedIndex(gone, positions, outpoint)
    IN  IF Len(positions) > 0
        THEN IF index # 0
             THEN [db |-> d, batch |-> BatchWrite(b, key, EraseAt(positions, index))]
             ELSE [db |-> d, batch |-> b]
        ELSE [db |-> d, batch |-> BatchErase(b, key)]

EraseSpenderInfosStep(d, b, siphash_key, gone, outpoint, readOk) ==
    LET key == DbKey(siphash_key, outpoint)
        positions == IF readOk THEN Read(d, key) ELSE <<>>
        index == ErasedIndex(gone, positions, outpoint)
    IN  IF Len(positions) > 1
        THEN IF index # 0
             THEN [db |-> d, batch |-> BatchWrite(b, key, EraseAt(positions, index))]
             ELSE [db |-> d, batch |-> b]
        ELSE [db |-> d, batch |-> BatchErase(b, key)]

\* the whole loop, from item j on
RECURSIVE WriteLoop(_, _, _, _, _)
WriteLoop(d, b, siphash_key, its, j) ==
    IF j > Len(its) THEN b
    ELSE WriteLoop(d, WriteSpenderInfosStep(d, b, siphash_key, its[j], TRUE).batch,
                   siphash_key, its, j + 1)

RECURSIVE EraseLoop(_, _, _, _, _, _)
EraseLoop(d, b, siphash_key, gone, its, j) ==
    IF j > Len(its) THEN b
    ELSE EraseLoop(d, EraseSpenderInfosStep(d, b, siphash_key, gone, its[j], TRUE).batch,
                   siphash_key, gone, its, j + 1)

\* the database after a whole call in which every read and the commit succeed
WriteSpenderInfos(d, siphash_key, its) ==
    WriteBatch(d, WriteLoop(d, <<>>, siphash_key, its, 1))

EraseSpenderInfos(d, siphash_key, gone, its) ==
    WriteBatch(d, EraseLoop(d, <<>>, siphash_key, gone, its, 1))

(***************************************************************************)
(* The items CustomAppend and CustomRewind collect from a block.           *)
(***************************************************************************)
RECURSIVE InputItems(_, _, _)
InputItems(vin, j, pos) ==
    IF j > Len(vin) THEN <<>>
    ELSE <<[outpoint |-> vin[j], pos |-> pos]>> \o InputItems(vin, j + 1, pos)

\* AppendItemsFrom without the test of line 94: the inputs of the coinbase
\* transaction give items too
RECURSIVE AppendItemsFromAll(_, _, _)
AppendItemsFromAll(b, j, offset) ==
    IF j > Len(Blocks[b].vtx) THEN <<>>
    ELSE LET tx == Blocks[b].vtx[j]
             pos == CDiskTxPos(Blocks[b].file_number, Blocks[b].data_pos, offset)
         IN  InputItems(tx.vin, 1, pos)
             \o AppendItemsFromAll(b, j + 1, offset + GetSerializeSize(tx))

\* the loop of CustomAppend over vtx, from transaction j on, with pos.nTxOffset = offset
RECURSIVE AppendItemsFrom(_, _, _)
AppendItemsFrom(b, j, offset) ==
    IF j > Len(Blocks[b].vtx) THEN <<>>
    ELSE LET tx == Blocks[b].vtx[j]
             pos == CDiskTxPos(Blocks[b].file_number, Blocks[b].data_pos, offset)
         IN  (IF ~IsCoinBase(tx) THEN InputItems(tx.vin, 1, pos) ELSE <<>>)
             \o AppendItemsFrom(b, j + 1, offset + GetSerializeSize(tx))

\* AppendItems with pos.nTxOffset starting at 0, without the size of the
\* transaction count
AppendItemsNoCount(b) == AppendItemsFrom(b, 1, 0)

AppendItems(b) == AppendItemsFrom(b, 1, GetSizeOfCompactSize(Len(Blocks[b].vtx)))

\* the loop of CustomRewind over block.vtx, from transaction j on
RECURSIVE RewindItemsFrom(_, _)
RewindItemsFrom(b, j) ==
    IF j > Len(Blocks[b].vtx) THEN <<>>
    ELSE LET tx == Blocks[b].vtx[j]
         IN  (IF IsCoinBase(tx) THEN <<>> ELSE tx.vin) \o RewindItemsFrom(b, j + 1)

RewindItems(b) == RewindItemsFrom(b, 1)

(***************************************************************************)
(* State.                                                                  *)
(***************************************************************************)
VARIABLES
    db,             \* m_db: the committed key-value records
    m_siphash_key,  \* the member declared in the header
    chain,          \* the blocks whose CustomAppend is committed and not undone
    pruned,         \* the block files that were deleted from the archive
    pc,             \* where the driver thread is: idle, write, rewind, erase
    cur,            \* the block the driver thread is processing
    items,          \* the vector `items` of the call in progress
    i,              \* the next item of the loop
    batch,          \* the CDBBatch of the call in progress
    iter_tip,       \* CustomRewind's iter_tip
    new_tip_index,  \* CustomRewind's new_tip_index
    ret,            \* what the last CustomAppend / CustomRewind returned
    dbPre,          \* m_db when the last WriteSpenderInfos / EraseSpenderInfos began
    io_failed,      \* a database read or commit failed in that call
    hist,           \* the last two committed calls: kind, block, m_db before
    phase,          \* grow: only fresh appends so far; shrink: then only removals
    rd_pc,          \* where the reader thread is: idle, scan, done
    rd_txo,         \* the outpoint FindSpender was called with
    rd_positions,   \* the vector FindSpender read
    rd_result,      \* what FindSpender returned
    rd_gone,        \* the block files that were gone when FindSpender scanned
    rd_current      \* FindSpender read m_db during the call that dbPre belongs to

vars == <<db, m_siphash_key, chain, pruned, pc, cur, items, i, batch, iter_tip,
          new_tip_index, ret, dbPre, io_failed, hist, phase,
          rd_pc, rd_txo, rd_positions, rd_result, rd_gone, rd_current>>

driverVars == <<pc, cur, items, i, batch, iter_tip, new_tip_index, ret, dbPre,
                io_failed, hist, phase>>

readerVars == <<rd_pc, rd_txo, rd_positions, rd_result, rd_gone>>

Tip == IF chain = <<>> THEN Genesis ELSE chain[Len(chain)]

InFlight == pc \in {"write", "erase"}

Front(s) == SubSeq(s, 1, Len(s) - 1)

\* the record of a committed call, newest first, at most two kept
Record(kind, b) ==
    SubSeq(<<[kind |-> kind, blk |-> b, pre |-> dbPre]>> \o hist, 1,
           IF Len(hist) = 0 THEN 1 ELSE 2)

Init ==
    /\ db = EmptyDB
    /\ m_siphash_key \in KeyingMaterials
    /\ chain = <<>>
    /\ pruned = {}
    /\ pc = "idle"
    /\ cur = Genesis
    /\ items = <<>>
    /\ i = 1
    /\ batch = <<>>
    /\ iter_tip = Genesis
    /\ new_tip_index = Genesis
    /\ ret = TRUE
    /\ dbPre = EmptyDB
    /\ io_failed = FALSE
    /\ hist = <<>>
    /\ phase = "grow"
    /\ rd_pc = "idle"
    /\ rd_txo = NullOutPoint
    /\ rd_positions = <<>>
    /\ rd_result = nullopt
    /\ rd_gone = {}
    /\ rd_current = FALSE

(***************************************************************************)
(* CustomAppend.                                                           *)
(***************************************************************************)
\* The driver presents block b: the next block on top of the tip, or the tip
\* again after a restart.  Lines 89-100 collect the items.
CustomAppend(b) ==
    /\ pc = "idle"
    /\ Blocks[b].prev = Tip \/ b = Tip
    /\ Blocks[b].file_number \notin pruned
    /\ pc' = "write"
    /\ cur' = b
    /\ items' = AppendItems(b)
    /\ i' = 1
    /\ batch' = <<>>
    /\ dbPre' = db
    /\ io_failed' = FALSE
    /\ rd_current' = FALSE
    /\ UNCHANGED <<db, m_siphash_key, chain, pruned, iter_tip, new_tip_index, ret,
                   hist, phase, readerVars>>

\* one iteration of the loop of WriteSpenderInfos
WriteStep(readOk) ==
    /\ pc = "write"
    /\ i <= Len(items)
    /\ readOk \/ Exists(db, DbKey(m_siphash_key, items[i].outpoint))
    /\ LET r == WriteSpenderInfosStep(db, batch, m_siphash_key, items[i], readOk)
       IN  db' = r.db /\ batch' = r.batch
    /\ i' = i + 1
    /\ io_failed' = (io_failed \/ ~readOk)
    /\ UNCHANGED <<m_siphash_key, chain, pruned, pc, cur, items, iter_tip,
                   new_tip_index, ret, dbPre, hist, phase, readerVars, rd_current>>

\* return m_db->WriteBatch(batch), and the return of CustomAppend
WriteCommit(ok) ==
    /\ pc = "write"
    /\ i > Len(items)
    /\ db' = IF ok THEN WriteBatch(db, batch) ELSE db
    /\ ret' = ok
    /\ io_failed' = (io_failed \/ ~ok)
    /\ chain' = IF ok /\ cur # Tip THEN Append(chain, cur) ELSE chain
    /\ hist' = IF ok THEN Record(IF cur # Tip THEN "append" ELSE "represent", cur)
                     ELSE hist
    /\ phase' = IF ~ok THEN phase
                ELSE IF phase = "grow" /\ cur # Tip THEN "grow" ELSE "mixed"
    /\ pc' = "idle"
    /\ batch' = <<>>
    /\ UNCHANGED <<m_siphash_key, pruned, cur, items, i, iter_tip, new_tip_index,
                   dbPre, readerVars, rd_current>>

(***************************************************************************)
(* CustomRewind.                                                           *)
(***************************************************************************)
\* The driver rewinds from the tip to new_tip, a strict ancestor of the tip
\* (lines 107-109).
CustomRewind(new_tip) ==
    /\ pc = "idle"
    /\ chain # <<>>
    /\ new_tip \in {Genesis} \cup {chain[j] : j \in 1..(Len(chain) - 1)}
    /\ pc' = "rewind"
    /\ iter_tip' = Tip
    /\ new_tip_index' = new_tip
    /\ UNCHANGED <<db, m_siphash_key, chain, pruned, cur, items, i, batch, ret,
                   dbPre, io_failed, hist, phase, readerVars, rd_current>>

\* ReadBlockFromDisk fails: return false (lines 113-116)
RewindReadFails ==
    /\ pc = "rewind"
    /\ iter_tip \in BlockIds
    /\ Blocks[iter_tip].file_number \in pruned
    /\ pc' = "idle"
    /\ ret' = FALSE
    /\ UNCHANGED <<db, m_siphash_key, chain, pruned, cur, items, i, batch, iter_tip,
                   new_tip_index, dbPre, io_failed, hist, phase, readerVars, rd_current>>

\* ReadBlockFromDisk succeeds and the items are collected (lines 112-126)
RewindReadBlock ==
    /\ pc = "rewind"
    /\ iter_tip \in BlockIds
    /\ Blocks[iter_tip].file_number \notin pruned
    /\ pc' = "erase"
    /\ cur' = iter_tip
    /\ items' = RewindItems(iter_tip)
    /\ i' = 1
    /\ batch' = <<>>
    /\ dbPre' = db
    /\ io_failed' = FALSE
    /\ rd_current' = FALSE
    /\ UNCHANGED <<db, m_siphash_key, chain, pruned, iter_tip, new_tip_index, ret,
                   hist, phase, readerVars>>

\* one iteration of the loop of EraseSpenderInfos
EraseStep(readOk) ==
    /\ pc = "erase"
    /\ i <= Len(items)
    /\ readOk \/ Exists(db, DbKey(m_siphash_key, items[i]))
    /\ LET r == EraseSpenderInfosStep(db, batch, m_siphash_key, pruned, items[i], readOk)
       IN  db' = r.db /\ batch' = r.batch
    /\ i' = i + 1
    /\ io_failed' = (io_failed \/ ~readOk)
    /\ UNCHANGED <<m_siphash_key, chain, pruned, pc, cur, items, iter_tip,
                   new_tip_index, ret, dbPre, hist, phase, readerVars, rd_current>>

\* EraseCommit that ignores what EraseSpenderInfos returned: the loop goes on
\* to the parent after a batch that was not committed
EraseCommitNoStop(ok) ==
    /\ pc = "erase"
    /\ i > Len(items)
    /\ db' = IF ok THEN WriteBatch(db, batch) ELSE db
    /\ io_failed' = (io_failed \/ ~ok)
    /\ batch' = <<>>
    /\ chain' = Front(chain)
    /\ hist' = IF ok THEN Record("remove", cur) ELSE hist
    /\ phase' = IF phase \in {"grow", "shrink"} THEN "shrink" ELSE "mixed"
    /\ iter_tip' = Blocks[iter_tip].prev
    /\ IF new_tip_index # Blocks[iter_tip].prev
       THEN pc' = "rewind" /\ ret' = ret
       ELSE pc' = "idle" /\ ret' = TRUE
    /\ UNCHANGED <<m_siphash_key, pruned, cur, items, i, new_tip_index, dbPre,
                   readerVars, rd_current>>

\* return m_db->WriteBatch(batch), then lines 127-133: on failure return
\* false; otherwise step to the parent and loop while it is not new_tip_index
EraseCommit(ok) ==
    /\ pc = "erase"
    /\ i > Len(items)
    /\ db' = IF ok THEN WriteBatch(db, batch) ELSE db
    /\ io_failed' = (io_failed \/ ~ok)
    /\ batch' = <<>>
    /\ IF ok
       THEN /\ chain' = Front(chain)
            /\ hist' = Record("remove", cur)
            /\ phase' = IF phase \in {"grow", "shrink"} THEN "shrink" ELSE "mixed"
            /\ iter_tip' = Blocks[iter_tip].prev
            /\ IF new_tip_index # Blocks[iter_tip].prev
               THEN pc' = "rewind" /\ ret' = ret
               ELSE pc' = "idle" /\ ret' = TRUE
       ELSE /\ pc' = "idle"
            /\ ret' = FALSE
            /\ UNCHANGED <<chain, hist, phase, iter_tip>>
    /\ UNCHANGED <<m_siphash_key, pruned, cur, items, i, new_tip_index, dbPre,
                   readerVars, rd_current>>

\* CustomRewind called with new_tip = current_tip (lines 107-109): the body of
\* the do-while loop is entered before new_tip_index is compared
CustomRewindSameTip ==
    /\ pc = "idle"
    /\ chain # <<>>
    /\ pc' = "rewind"
    /\ iter_tip' = Tip
    /\ new_tip_index' = Tip
    /\ UNCHANGED <<db, m_siphash_key, chain, pruned, cur, items, i, batch, ret,
                   dbPre, io_failed, hist, phase, readerVars, rd_current>>

\* the iteration of the loop on the genesis block, which holds a coinbase
\* transaction only: no item, an empty batch, then iter_tip becomes
\* GetAncestor(-1), which is not new_tip_index (lines 112-133)
RewindGenesis ==
    /\ pc = "rewind"
    /\ iter_tip = Genesis
    /\ new_tip_index # NullBlockIndex
    /\ iter_tip' = NullBlockIndex
    /\ cur' = Genesis
    /\ items' = <<>>
    /\ i' = 1
    /\ batch' = <<>>
    /\ dbPre' = db
    /\ io_failed' = FALSE
    /\ rd_current' = FALSE
    /\ UNCHANGED <<db, m_siphash_key, chain, pruned, pc, new_tip_index, ret,
                   hist, phase, readerVars>>

\* ReadBlockFromDisk(block, *iter_tip) with iter_tip = nullptr (line 113) is
\* undefined: the process dies, or the read fails and false is returned
RewindNullDeref(outcome) ==
    /\ pc = "rewind"
    /\ iter_tip = NullBlockIndex
    /\ pc' = "idle"
    /\ ret' = IF outcome = "false" THEN FALSE ELSE ret
    /\ UNCHANGED <<db, m_siphash_key, chain, pruned, cur, items, i, batch, iter_tip,
                   new_tip_index, dbPre, io_failed, hist, phase, readerVars, rd_current>>

(***************************************************************************)
(* The environment: a process crash, and the pruning of a block file.      *)
(***************************************************************************)
\* The process dies during a call: the batch and the threads are lost, m_db
\* keeps what was committed.
Crash ==
    /\ pc # "idle"
    /\ pc' = "idle"
    /\ batch' = <<>>
    /\ rd_pc' = "idle"
    /\ rd_positions' = <<>>
    /\ rd_gone' = {}
    /\ rd_current' = FALSE
    /\ UNCHANGED <<db, m_siphash_key, chain, pruned, cur, items, i, iter_tip,
                   new_tip_index, ret, dbPre, io_failed, hist, phase, rd_txo, rd_result>>

\* A block file is deleted.  Files are deleted under cs_main, which CustomRewind
\* holds from line 107 to its return.
Prune(file) ==
    /\ pc \notin {"rewind", "erase"}
    /\ file \notin pruned
    /\ pruned' = pruned \cup {file}
    /\ UNCHANGED <<db, m_siphash_key, chain, driverVars, readerVars, rd_current>>

(***************************************************************************)
(* FindSpender, on the reader thread.                                      *)
(***************************************************************************)
\* lines 158-162: the read of the bucket; nullopt when Read returns false
FindSpenderRead(txo) ==
    /\ rd_pc \in {"idle", "done"}
    /\ rd_txo' = txo
    /\ rd_gone' = {}
    /\ IF Exists(db, DbKey(m_siphash_key, txo))
       THEN /\ rd_pc' = "scan"
            /\ rd_positions' = Read(db, DbKey(m_siphash_key, txo))
            /\ rd_result' = nullopt
            /\ rd_current' = InFlight
       ELSE /\ rd_pc' = "done"
            /\ rd_positions' = <<>>
            /\ rd_result' = nullopt
            /\ rd_current' = FALSE
    /\ UNCHANGED <<db, m_siphash_key, chain, pruned, driverVars>>

\* lines 163-174: the scan of the candidates
FindSpenderScan ==
    /\ rd_pc = "scan"
    /\ rd_pc' = "done"
    /\ rd_result' = ScanPositions(pruned, rd_positions, 1, rd_txo)
    /\ rd_gone' = pruned
    /\ rd_current' = FALSE
    /\ UNCHANGED <<db, m_siphash_key, chain, pruned, driverVars, rd_txo, rd_positions>>

(***************************************************************************)
(* Specifications.                                                         *)
(*   Spec:   the driver thread, crashes and pruning; every database read   *)
(*           and commit succeeds.                                          *)
(*   SpecRd: the driver thread and crashes, with a reader thread running   *)
(*           FindSpender concurrently.                                     *)
(*   SpecIO: the driver thread, where a read of an existing record or a    *)
(*           commit may fail.                                              *)
(*   SpecPruned: appends, pruning and the reader thread.                   *)
(*   SpecSameTip: the driver thread, which may also call CustomRewind with *)
(*           new_tip = current_tip; every read and commit succeeds.        *)
(***************************************************************************)
Next ==
    \/ \E b \in BlockIds : CustomAppend(b)
    \/ WriteStep(TRUE)
    \/ WriteCommit(TRUE)
    \/ \E t \in BlockIds \cup {Genesis} : CustomRewind(t)
    \/ RewindReadFails
    \/ RewindReadBlock
    \/ EraseStep(TRUE)
    \/ EraseCommit(TRUE)
    \/ Crash
    \/ \E f \in Files : Prune(f)

Spec == Init /\ [][Next]_vars

NextRd ==
    \/ \E b \in BlockIds : CustomAppend(b)
    \/ WriteStep(TRUE)
    \/ WriteCommit(TRUE)
    \/ \E t \in BlockIds \cup {Genesis} : CustomRewind(t)
    \/ RewindReadBlock
    \/ EraseStep(TRUE)
    \/ EraseCommit(TRUE)
    \/ Crash
    \/ \E txo \in OutPoints : FindSpenderRead(txo)
    \/ FindSpenderScan

\* the keying material is generated once; the reader is followed for one value
InitRd == Init /\ m_siphash_key = <<0, 0>>

SpecRd == InitRd /\ [][NextRd]_vars

NextIO ==
    \/ \E b \in BlockIds : CustomAppend(b)
    \/ \E ok \in BOOLEAN : WriteStep(ok)
    \/ \E ok \in BOOLEAN : WriteCommit(ok)
    \/ \E t \in BlockIds \cup {Genesis} : CustomRewind(t)
    \/ RewindReadFails
    \/ RewindReadBlock
    \/ \E ok \in BOOLEAN : EraseStep(ok)
    \/ \E ok \in BOOLEAN : EraseCommit(ok)
    \/ \E f \in Files : Prune(f)

SpecIO == Init /\ [][NextIO]_vars

\* the appends of the driver thread, pruning and the reader thread
NextPruned ==
    \/ \E b \in BlockIds : CustomAppend(b)
    \/ WriteStep(TRUE)
    \/ WriteCommit(TRUE)
    \/ \E f \in Files : Prune(f)
    \/ \E txo \in OutPoints : FindSpenderRead(txo)
    \/ FindSpenderScan

SpecPruned == Init /\ [][NextPruned]_vars

NextSameTip ==
    \/ \E b \in BlockIds : CustomAppend(b)
    \/ WriteStep(TRUE)
    \/ WriteCommit(TRUE)
    \/ \E t \in BlockIds \cup {Genesis} : CustomRewind(t)
    \/ CustomRewindSameTip
    \/ RewindReadBlock
    \/ EraseStep(TRUE)
    \/ EraseCommit(TRUE)
    \/ RewindGenesis
    \/ \E outcome \in {"abort", "false"} : RewindNullDeref(outcome)

SpecSameTip == Init /\ [][NextSameTip]_vars

(***************************************************************************)
(* Vocabulary of the properties.                                           *)
(***************************************************************************)
Connected == {chain[j] : j \in 1..Len(chain)}

BlockTxs(b) == {Blocks[b].vtx[j] : j \in 1..Len(Blocks[b].vtx)}

Readable(b) == Blocks[b].file_number \notin pruned

\* the outpoints spent by the non-coinbase transactions of block b
SpentBy(b) == {o \in OutPoints : \E tx \in BlockTxs(b) : ~IsCoinBase(tx) /\ TxSpends(tx, o)}

\* what FindSpender(txo) returns in the current state
Query(txo) == FindSpender(db, m_siphash_key, pruned, txo)

\* the record stored for the bucket of an outpoint: <<>> when there is none,
\* <<positions>> otherwise
Bucket(d, txo) ==
    IF Exists(d, DbKey(m_siphash_key, txo)) THEN <<d[DbKey(m_siphash_key, txo)]>> ELSE <<>>

\* the last two committed calls are an append of a block (of one of `kinds`)
\* and the removal of the same block
AppendThenRemove(kinds) ==
    /\ pc = "idle"
    /\ Len(hist) = 2
    /\ hist[1].kind = "remove"
    /\ hist[2].kind \in kinds
    /\ hist[1].blk = hist[2].blk

\* the blocks removed by the last committed calls
Disconnected == {hist[j].blk : j \in {k \in 1..Len(hist) : hist[k].kind = "remove"}}

\* `result` is the id of a transaction that spends txo
IsSpenderOf(result, txo) ==
    \E tx \in AllTxs : tx.txid = result[1] /\ TxSpends(tx, txo)

\* no candidate of `positions` is readable and spends txo
NoMatch(gone, positions, txo) ==
    \A j \in 1..Len(positions) :
        LET tx == ReadTransaction(gone, positions[j])
        IN  tx = <<>> \/ ~TxSpends(tx[1], txo)

\* the candidates of `positions` that are readable and spend txo
Matches(gone, positions, txo) ==
    {j \in 1..Len(positions) :
        LET tx == ReadTransaction(gone, positions[j])
        IN  tx # <<>> /\ TxSpends(tx[1], txo)}

\* m_db after the whole call that dbPre and items belong to
DbPost ==
    IF pc = "write" \/ (~InFlight /\ hist # <<>> /\ hist[1].kind \in {"append", "represent"})
    THEN WriteSpenderInfos(dbPre, m_siphash_key, items)
    ELSE EraseSpenderInfos(dbPre, m_siphash_key, pruned, items)

\* the truncated transaction id plus the output index
TruncatedSum(vout) == (GetUint64(vout.hash) + vout.n) % Uint64Mod

(***************************************************************************)
(* C1. Collision correctness: two distinct outpoints with the same bucket  *)
(* key, spent by distinct transactions of connected blocks (of one block or*)
(* of two) whose files are readable, are each resolved by FindSpender to   *)
(* their own spending transaction.                                         *)
(***************************************************************************)
C1_CollisionCorrectness ==
    pc = "idle" =>
        \A b1, b2 \in Connected :
            \A t1 \in BlockTxs(b1), t2 \in BlockTxs(b2) :
                \A o1, o2 \in OutPoints :
                    (/\ o1 # o2
                     /\ t1 # t2
                     /\ ~IsCoinBase(t1) /\ ~IsCoinBase(t2)
                     /\ TxSpends(t1, o1) /\ TxSpends(t2, o2)
                     /\ DbKey(m_siphash_key, o1) = DbKey(m_siphash_key, o2)
                     /\ Readable(b1) /\ Readable(b2))
                    => (Query(o1) = <<t1.txid>> /\ Query(o2) = <<t2.txid>>)

(***************************************************************************)
(* C2. Append/Remove inverse: when the removal of block B directly follows *)
(* an append of B, every bucket of an input of B is the bucket (same       *)
(* locators, same order, or no record) held before that append.            *)
(* C2_AppendRemoveInverse states it for any append, the re-presentation of *)
(* an indexed block included; C2_AppendRemoveInverseFresh for the append   *)
(* of a block that was not connected.                                      *)
(***************************************************************************)
C2_AppendRemoveInverse ==
    AppendThenRemove({"append", "represent"}) =>
        \A o \in SpentBy(hist[1].blk) : Bucket(db, o) = Bucket(hist[2].pre, o)

\* C2 as amended: the inverse holds for the append of a block that was not
\* connected (not the re-presentation of a block that is already indexed).
C2_AppendRemoveInverseFresh ==
    AppendThenRemove({"append"}) =>
        \A o \in SpentBy(hist[1].blk) : Bucket(db, o) = Bucket(hist[2].pre, o)

\* block 2 was appended on top of block 1 and removed: the bucket its outpoint
\* (4,1) shares with block 1 is back to one candidate, the record of its
\* outpoint (6,0) is gone
C2_Witness ==
    /\ AppendThenRemove({"append"})
    /\ hist[1].blk = 2
    /\ Bucket(db, COutPoint(4, 1)) # <<>>
    /\ Bucket(hist[1].pre, COutPoint(4, 1)) # Bucket(db, COutPoint(4, 1))
    /\ Bucket(db, COutPoint(6, 0)) = <<>>

(***************************************************************************)
(* C3. Append idempotence: a second CustomAppend of the same block, right  *)
(* after the first, leaves every bucket as the first one left it.          *)
(***************************************************************************)
C3_AppendIdempotent ==
    (/\ pc = "idle"
     /\ Len(hist) = 2
     /\ hist[1].kind = "represent"
     /\ hist[2].kind \in {"append", "represent"}
     /\ hist[1].blk = hist[2].blk)
    => db = hist[1].pre

(***************************************************************************)
(* C4. Reorg sequence: after blocks were appended in chain order and a     *)
(* suffix of them was disconnected newest first, FindSpender returns the   *)
(* spender of every outpoint spent in a block that is still connected      *)
(* (and readable), and nullopt for every outpoint spent only in            *)
(* disconnected blocks.                                                    *)
(***************************************************************************)
C4_ReorgSequence ==
    (pc = "idle" /\ phase = "shrink") =>
        \A o \in OutPoints :
            /\ \A b \in Connected : \A tx \in BlockTxs(b) :
                   (~IsCoinBase(tx) /\ TxSpends(tx, o) /\ Readable(b))
                   => Query(o) = <<tx.txid>>
            /\ ((\E b \in Disconnected : o \in SpentBy(b))
                 /\ (\A b \in Connected : o \notin SpentBy(b)))
               => Query(o) = nullopt

(***************************************************************************)
(* C5. Atomic batch: while WriteSpenderInfos or EraseSpenderInfos is       *)
(* building its batch m_db is what it was when the call began; m_db only   *)
(* changes in the step that commits the whole batch of a block; a crash    *)
(* leaves m_db as it was when the call began.                              *)
(***************************************************************************)
C5_AtomicBatch ==
    /\ [](InFlight => db = dbPre)
    /\ [][db' # db => (InFlight /\ i > Len(items) /\ db' = WriteBatch(db, batch))]_vars
    /\ [][(InFlight /\ Crash) => db' = dbPre]_vars

\* a crash cut the append of block 1 after its first item was put in the batch
C5_Witness ==
    /\ pc = "idle"
    /\ cur = 1
    /\ i = 2
    /\ Len(items) = 2
    /\ hist = <<>>
    /\ db = EmptyDB

(***************************************************************************)
(* C6. No wrong answers: whatever FindSpender returns for an outpoint is   *)
(* the id of a transaction with an input that spends this outpoint, and it *)
(* returns nullopt when there is no record or no candidate matches.  Both  *)
(* for a call on the current state and for the call the reader finished.   *)
(***************************************************************************)
C6_NoWrongAnswers ==
    /\ \A o \in OutPoints :
          LET q == Query(o)
          IN  /\ q # nullopt => IsSpenderOf(q, o)
              /\ Bucket(db, o) = <<>> => q = nullopt
              /\ (Bucket(db, o) # <<>> /\ NoMatch(pruned, Bucket(db, o)[1], o))
                 => q = nullopt
    /\ rd_pc = "done" =>
          /\ rd_result # nullopt => IsSpenderOf(rd_result, rd_txo)
          /\ NoMatch(rd_gone, rd_positions, rd_txo) => rd_result = nullopt

\* the reader asked for (4,1), found the transaction of block 1 first in the
\* bucket, and returned transaction 13
C6_Witness ==
    /\ rd_pc = "done"
    /\ rd_txo = COutPoint(4, 1)
    /\ Len(rd_positions) = 2
    /\ rd_positions[1].nFile = 0
    /\ rd_result = <<13>>

(***************************************************************************)
(* C7. Storage failure is fatal for the block: when a database read or the *)
(* commit failed during CustomAppend or during the removal of a block, the *)
(* call returns false and m_db is what it was when the call began.         *)
(***************************************************************************)
C7_StorageFailureFatal ==
    (~InFlight /\ io_failed) =>
        /\ db = dbPre
        /\ pc = "idle" => ret = FALSE

(***************************************************************************)
(* C8. Pruned-data tolerance: a candidate that ReadTransaction cannot read *)
(* is skipped; the call the reader finished returned the first readable    *)
(* candidate that spends the outpoint when there is one, and nullopt when  *)
(* no candidate could be read.                                             *)
(***************************************************************************)
C8_PrunedDataTolerance ==
    rd_pc = "done" =>
        /\ Matches(rd_gone, rd_positions, rd_txo) # {} =>
              \E j \in Matches(rd_gone, rd_positions, rd_txo) :
                  /\ \A k \in Matches(rd_gone, rd_positions, rd_txo) : j <= k
                  /\ rd_result = <<ReadTransaction(rd_gone, rd_positions[j])[1].txid>>
        /\ (\A j \in 1..Len(rd_positions) : ReadTransaction(rd_gone, rd_positions[j]) = <<>>)
              => rd_result = nullopt

\* the first candidate was unreadable and the call returned a later one
C8_Witness ==
    /\ rd_pc = "done"
    /\ Len(rd_positions) >= 2
    /\ ReadTransaction(rd_gone, rd_positions[1]) = <<>>
    /\ rd_result # nullopt

(***************************************************************************)
(* C9. Reader isolation: what a FindSpender call that read m_db during the *)
(* processing of a block returns is what it would return on m_db before    *)
(* that block or on m_db after the whole block.                            *)
(***************************************************************************)
C9_ReaderIsolation ==
    (rd_pc = "scan" /\ rd_current) =>
        ScanPositions(pruned, rd_positions, 1, rd_txo)
            \in {FindSpender(dbPre, m_siphash_key, pruned, rd_txo),
                 FindSpender(DbPost, m_siphash_key, pruned, rd_txo)}

\* the reader read the bucket while block 2 was being appended, the block was
\* committed since, and the reader has not scanned yet
C9_Witness ==
    /\ rd_pc = "scan"
    /\ rd_current
    /\ pc = "idle"
    /\ cur = 2
    /\ db # dbPre
    /\ rd_positions = Read(dbPre, DbKey(m_siphash_key, rd_txo))
    /\ rd_positions # Read(db, DbKey(m_siphash_key, rd_txo))

(***************************************************************************)
(* C10. Keyed bucket key: the key of a record depends on the keying        *)
(* material (another keying material gives the outpoint another key), and  *)
(* two outpoints whose truncated transaction id plus output index agree    *)
(* do not get the same key under every keying material.                    *)
(***************************************************************************)
C10_KeyedBucketKey ==
    /\ \A o \in OutPoints :
          Exists(db, DbKey(m_siphash_key, o)) =>
              \E km \in KeyingMaterials : DbKey(km, o) # DbKey(m_siphash_key, o)
    /\ \A o1, o2 \in OutPoints :
          (/\ o1 # o2
           /\ TruncatedSum(o1) = TruncatedSum(o2)
           /\ Exists(db, DbKey(m_siphash_key, o1)))
          => \E km \in KeyingMaterials : DbKey(km, o1) # DbKey(km, o2)

(***************************************************************************)
(* Vocabulary of the properties of one removal and of one append.          *)
(***************************************************************************)
\* the transaction archived at `pos` has an input that spends `o`
SpendsAt(pos, o) ==
    LET tx == ReadTransaction({}, pos) IN tx # <<>> /\ TxSpends(tx[1], o)

\* s holds candidates of t only, in the relative order they have in t
RECURSIVE IsSubSeq(_, _)
IsSubSeq(s, t) ==
    IF s = <<>> THEN TRUE
    ELSE IF t = <<>> THEN FALSE
    ELSE IF Head(s) = Head(t) THEN IsSubSeq(Tail(s), Tail(t))
    ELSE IsSubSeq(s, Tail(t))

\* the candidate x is in the vector s
Holds(s, x) == \E k \in 1..Len(s) : s[k] = x

\* the last committed call is the removal of a block / an append of a block
LastRemoval == pc = "idle" /\ hist # <<>> /\ hist[1].kind = "remove"

LastAppend == pc = "idle" /\ hist # <<>> /\ hist[1].kind \in {"append", "represent"}

\* the candidates of `positions` that lie in block b and spend o
OwnMatches(positions, b, o) ==
    {j \in 1..Len(positions) :
        /\ positions[j].nFile = Blocks[b].file_number
        /\ positions[j].nPos = Blocks[b].data_pos
        /\ SpendsAt(positions[j], o)}

\* the keys of all records of d1 and d2
Keys(d1, d2) == DOMAIN d1 \cup DOMAIN d2

(***************************************************************************)
(* C11. Disambiguate-on-remove: when the removal of an outpoint O of a     *)
(* block found a bucket of two or more candidates, one of them the         *)
(* transaction of the block that spends O, then in the bucket the removal  *)
(* of the block committed a candidate that spends O is gone, every         *)
(* candidate that is gone spends an outpoint of the block, and the         *)
(* candidates that stay are in their original relative order.              *)
(***************************************************************************)
C11_DisambiguateOnRemove ==
    LastRemoval =>
        \A o \in SpentBy(hist[1].blk) :
            LET pre  == Read(hist[1].pre, DbKey(m_siphash_key, o))
                post == Read(db, DbKey(m_siphash_key, o))
            IN  (Len(pre) > 1 /\ OwnMatches(pre, hist[1].blk, o) # {}) =>
                    /\ IsSubSeq(post, pre)
                    /\ \E j \in 1..Len(pre) :
                           SpendsAt(pre[j], o) /\ ~Holds(post, pre[j])
                    /\ \A j \in 1..Len(pre) :
                           ~Holds(post, pre[j]) =>
                               \E o2 \in SpentBy(hist[1].blk) : SpendsAt(pre[j], o2)

\* the removal of outpoint o finds in d no record, or a record of two or more
\* candidates none of which is readable and spends o
NoMatchRemoval(d, gone, o) ==
    LET positions == Read(d, DbKey(m_siphash_key, o))
    IN  \/ ~Exists(d, DbKey(m_siphash_key, o))
        \/ Len(positions) > 1 /\ NoMatch(gone, positions, o)

(***************************************************************************)
(* C12. Removal without a match is a no-op, not an error: the iteration of *)
(* EraseSpenderInfos for an outpoint whose bucket is absent, or holds two  *)
(* or more candidates none of which is readable and spends it, leaves the  *)
(* record the batch will commit for that key as it was and goes on to the  *)
(* next input; and the removal of a block with such an input, when the     *)
(* process does not die, commits its batch and does not return false.      *)
(***************************************************************************)
C12_RemovalWithoutMatch ==
    /\ [][(/\ pc = "erase"
           /\ i <= Len(items)
           /\ NoMatchRemoval(db, pruned, items[i])
           /\ i' = i + 1)
          => (/\ Bucket(WriteBatch(db, batch'), items[i])
                    = Bucket(WriteBatch(db, batch), items[i])
              /\ pc' = "erase"
              /\ items' = items)]_vars
    /\ [][(/\ pc = "erase"
           /\ i > Len(items)
           /\ \E j \in 1..Len(items) : NoMatchRemoval(db, pruned, items[j])
           /\ ~Crash)
          => (/\ db' = WriteBatch(db, batch)
              /\ hist'[1] = [kind |-> "remove", blk |-> cur, pre |-> dbPre]
              /\ pc' \in {"idle", "rewind"}
              /\ pc' = "idle" => ret')]_vars

\* the removal of block 4 is committed and returned true; for one of its
\* outpoints the bucket held two or more candidates, one of them in a file
\* that is gone, and none that spends it
C12_Witness ==
    /\ LastRemoval
    /\ hist[1].blk = 4
    /\ cur = 4
    /\ ret
    /\ \E j \in 1..Len(items) :
           LET positions == Read(dbPre, DbKey(m_siphash_key, items[j]))
           IN  /\ Len(positions) > 1
               /\ NoMatch(pruned, positions, items[j])
               /\ \E k \in 1..Len(positions) :
                      ReadTransaction(pruned, positions[k]) = <<>>
               /\ Bucket(db, items[j]) # <<>>

\* no candidate is twice in the vector s
NoDuplicate(s) == \A a, b \in 1..Len(s) : a # b => s[a] # s[b]

(***************************************************************************)
(* C13. No duplicates: whatever appends (repeated appends of one block     *)
(* included) and removals were made, and whether or not the reads and the  *)
(* commits succeeded, no record of m_db holds the same CDiskTxPos twice.   *)
(***************************************************************************)
C13_NoDuplicates ==
    \A key \in DOMAIN db : NoDuplicate(db[key])

\* block 2 was appended a second time and the bucket it shares with block 1
\* holds two candidates
C13_Witness ==
    /\ pc = "idle"
    /\ hist # <<>>
    /\ hist[1].kind = "represent"
    /\ hist[1].blk = 2
    /\ Len(Read(db, DbKey(m_siphash_key, COutPoint(4, 1)))) = 2

(***************************************************************************)
(* C14. No empty bucket: no record of m_db holds an empty vector, and the  *)
(* committed removal of a block leaves no record for an outpoint of the    *)
(* block whose bucket held one candidate.                                  *)
(***************************************************************************)
C14_NoEmptyBucket ==
    /\ \A key \in DOMAIN db : Len(db[key]) >= 1
    /\ LastRemoval =>
           \A o \in SpentBy(hist[1].blk) :
               Len(Read(hist[1].pre, DbKey(m_siphash_key, o))) = 1
                   => Bucket(db, o) = <<>>

\* the removal of block 2 took the only candidate of the bucket of (6,0) and
\* left the bucket of (4,1) with the candidate of block 1
C14_Witness ==
    /\ LastRemoval
    /\ hist[1].blk = 2
    /\ Len(Read(hist[1].pre, DbKey(m_siphash_key, COutPoint(6, 0)))) = 1
    /\ Bucket(db, COutPoint(6, 0)) = <<>>
    /\ Len(Read(db, DbKey(m_siphash_key, COutPoint(4, 1)))) = 1

\* the blocks below b on its branch, the genesis block included
RECURSIVE AncestorsOf(_)
AncestorsOf(b) ==
    IF b = Genesis THEN {} ELSE {Blocks[b].prev} \cup AncestorsOf(Blocks[b].prev)

\* CBlockIndex::nHeight
Height(b) == Cardinality(AncestorsOf(b))

\* CustomRewind is between its first ReadBlockFromDisk and its return
Rewinding == pc \in {"rewind", "erase"}

(***************************************************************************)
(* C15. Rewind order and extent, for a rewind to a strict ancestor:        *)
(*  - the block CustomRewind is at is the highest block still indexed and  *)
(*    is strictly above new_tip; the block being erased is that block;     *)
(*  - each block is erased by one committed batch, after which the rewind  *)
(*    is at the parent, one lower, and returns true exactly when the       *)
(*    parent is new_tip, with the blocks up to new_tip left indexed;       *)
(*  - when ReadBlockFromDisk fails (the file is gone) or the batch of a    *)
(*    block is not committed, CustomRewind returns false at once and m_db  *)
(*    and the blocks left indexed are unchanged.                           *)
(***************************************************************************)
C15_RewindOrderAndExtent ==
    /\ [](Rewinding => (/\ iter_tip = Tip
                        /\ new_tip_index \in AncestorsOf(iter_tip)
                        /\ (pc = "erase" => cur = iter_tip)))
    /\ [][(pc = "erase" /\ hist' # hist)
          => (/\ db' = WriteBatch(db, batch)
              /\ hist'[1] = [kind |-> "remove", blk |-> iter_tip, pre |-> dbPre]
              /\ chain = Append(chain', iter_tip)
              /\ iter_tip' = Blocks[iter_tip].prev
              /\ Height(iter_tip') = Height(iter_tip) - 1
              /\ IF iter_tip' = new_tip_index
                 THEN pc' = "idle" /\ ret' /\ Tip' = new_tip_index
                 ELSE pc' = "rewind")]_vars
    /\ [][(pc = "rewind" /\ Blocks[iter_tip].file_number \in pruned /\ pc' # pc)
          => (pc' = "idle" /\ ~ret' /\ db' = db /\ chain' = chain)]_vars
    /\ [][(pc = "erase" /\ i > Len(items) /\ pc' # pc /\ hist' = hist)
          => (pc' = "idle" /\ ~ret' /\ db' = db /\ chain' = chain)]_vars
    /\ [][(pc = "rewind" /\ pc' = "erase")
          => (Blocks[iter_tip].file_number \notin pruned /\ cur' = iter_tip
              /\ items' = RewindItems(iter_tip))]_vars

\* a rewind from block 2 to the genesis block erased block 2, then block 1,
\* and returned true
C15_Witness ==
    /\ pc = "idle"
    /\ ret
    /\ Len(hist) = 2
    /\ hist[1] = [kind |-> "remove", blk |-> 1, pre |-> hist[1].pre]
    /\ hist[2].kind = "remove"
    /\ hist[2].blk = 2
    /\ new_tip_index = Genesis
    /\ chain = <<>>

\* the sum of the serialized sizes of the first n transactions of vtx
RECURSIVE SizeOfFirst(_, _)
SizeOfFirst(vtx, n) ==
    IF n = 0 THEN 0 ELSE SizeOfFirst(vtx, n - 1) + GetSerializeSize(vtx[n])

\* the CDiskTxPos that CustomAppend holds in `pos` when its loop is at the
\* j-th transaction of block b
PosOfTx(b, j) ==
    CDiskTxPos(Blocks[b].file_number, Blocks[b].data_pos,
               GetSizeOfCompactSize(Len(Blocks[b].vtx)) + SizeOfFirst(Blocks[b].vtx, j - 1))

(***************************************************************************)
(* C16. Locator round-trip: the position CustomAppend computes for the     *)
(* j-th transaction of a block (the coinbase included) is read back by     *)
(* ReadTransaction as exactly that transaction; every item CustomAppend    *)
(* collected carries such a position, that of a non-coinbase transaction   *)
(* of the block that spends the item's outpoint, and every input of every  *)
(* non-coinbase transaction has an item that reads back as its transaction.*)
(***************************************************************************)
C16_LocatorRoundTrip ==
    pc = "write" =>
        /\ \A j \in 1..Len(Blocks[cur].vtx) :
               ReadTransaction({}, PosOfTx(cur, j)) = <<Blocks[cur].vtx[j]>>
        /\ \A k \in 1..Len(items) :
               /\ \E j \in 1..Len(Blocks[cur].vtx) : items[k].pos = PosOfTx(cur, j)
               /\ LET tx == ReadTransaction({}, items[k].pos)
                  IN  /\ tx # <<>>
                      /\ tx[1] \in BlockTxs(cur)
                      /\ ~IsCoinBase(tx[1])
                      /\ TxSpends(tx[1], items[k].outpoint)
        /\ \A tx \in BlockTxs(cur) :
               ~IsCoinBase(tx) =>
                   \A j \in 1..Len(tx.vin) :
                       \E k \in 1..Len(items) :
                           /\ items[k].outpoint = tx.vin[j]
                           /\ ReadTransaction({}, items[k].pos) = <<tx>>

\* CustomAppend of block 4: the item of its third transaction, which follows
\* the coinbase and another transaction, reads back as transaction 16
C16_Witness ==
    /\ pc = "write"
    /\ cur = 4
    /\ Len(items) = 2
    /\ items[2].pos.nTxOffset = 7
    /\ ReadTransaction({}, items[2].pos) = <<Tx(16, <<COutPoint(4, 1)>>)>>

\* the record d holds under `key`: <<>> when there is none, <<positions>> otherwise
RecordAt(d, key) == IF Exists(d, key) THEN <<d[key]>> ELSE <<>>

(***************************************************************************)
(* C17. Append footprint: a committed CustomAppend of block B changed (or  *)
(* created) only records whose key is the key of an input of a             *)
(* non-coinbase transaction of B, every other record is what it was; and   *)
(* no record holds the position of a coinbase transaction.                 *)
(***************************************************************************)
C17_AppendFootprint ==
    /\ LastAppend =>
           \A key \in Keys(db, hist[1].pre) :
               RecordAt(db, key) # RecordAt(hist[1].pre, key)
                   => \E o \in SpentBy(hist[1].blk) : key = DbKey(m_siphash_key, o)
    /\ \A key \in DOMAIN db :
           \A j \in 1..Len(db[key]) :
               LET tx == ReadTransaction({}, db[key][j])
               IN  tx # <<>> => ~IsCoinBase(tx[1])

\* the append of block 4 on top of block 3 changed the record of the colliding
\* outpoints and left the record of (6,0), which block 3 created, as it was
C17_Witness ==
    /\ LastAppend
    /\ hist[1].blk = 4
    /\ RecordAt(db, DbKey(m_siphash_key, COutPoint(6, 0))) # <<>>
    /\ RecordAt(db, DbKey(m_siphash_key, COutPoint(6, 0)))
           = RecordAt(hist[1].pre, DbKey(m_siphash_key, COutPoint(6, 0)))
    /\ RecordAt(db, DbKey(m_siphash_key, COutPoint(3, 2)))
           # RecordAt(hist[1].pre, DbKey(m_siphash_key, COutPoint(3, 2)))

\* s is the beginning of t
IsPrefix(s, t) == Len(s) <= Len(t) /\ SubSeq(t, 1, Len(s)) = s

(***************************************************************************)
(* C18. Append only grows buckets: after a committed CustomAppend, every   *)
(* record m_db held before it is still there and the vector it held is the *)
(* beginning of the vector it holds now, whether or not the reads of the   *)
(* existing records succeeded.                                             *)
(***************************************************************************)
C18_AppendOnlyGrows ==
    LastAppend =>
        \A key \in DOMAIN hist[1].pre :
            Exists(db, key) /\ IsPrefix(hist[1].pre[key], db[key])

(***************************************************************************)
(* C19. Rewind termination, for new_tip an ancestor of current_tip or      *)
(* current_tip itself: the block whose entries CustomRewind erases is      *)
(* strictly above new_tip (none when the two are equal), and the walk of   *)
(* iter_tip stays on the branch at or above new_tip, so that the loop ends *)
(* after at most as many blocks as there are between the two.              *)
(***************************************************************************)
C19_RewindTermination ==
    /\ pc = "erase" => new_tip_index \in AncestorsOf(cur)
    /\ Rewinding =>
           /\ iter_tip \in BlockIds \cup {Genesis}
           /\ iter_tip = new_tip_index \/ new_tip_index \in AncestorsOf(iter_tip)

====
